---- MODULE Spec2Model ----
(***************************************************************************)
(* Model of op_op: trial demarcation and latency demarcation               *)
(* (op_op/alignment.py), event rasterisation (op_op/event_ts.py), the      *)
(* cross-validation splitter (op_op/grouptype_crossval.py) and the trial   *)
(* features of op_op/event_feature_eng.py.                                 *)
(*                                                                         *)
(* Tables are records [cols, rows]: cols is the ordered list of column     *)
(* names, rows the rows in table order, each row carrying its row label    *)
(* (the pandas index).  Timestamps are integers standing for the float     *)
(* seconds of the program; NaN is the value NaN below and is never equal   *)
(* to anything under Eq, itself included.                                  *)
(***************************************************************************)
EXTENDS Integers, Sequences, FiniteSets, TLC

\* ---------------------------------------------------------------- bounds
MaxTime == 2
MaxSamples == 2
MaxTrials == 2
MaxEvents == 2      \* events in events_array
MaxDuration == 3    \* total_duration and event times
MaxInterval == 2    \* sampling_interval
MaxKernel == 2      \* kernel length
MaxShift == 1       \* |shift|
MaxRows == 3        \* rows of the aligned table
MaxLatency == 3     \* aligned latencies 0, 10, ..., 10 * MaxLatency
MaxLen == 3         \* samples in X
MaxGroup == 3       \* group labels 1..MaxGroup
MaxType == 2        \* group types 1..MaxType
MaxSplits == 3      \* n_splits
MaxEventRows == 3   \* rows of df_events
MaxEventTime == 1   \* event times in df_events
MaxTrialIdx == 2    \* trial indices in df_events
MaxAmount == 2      \* reward amounts
MaxDelayRows == 2   \* rows of df_events in calls of event_delay
MaxBlockType == 3   \* block types 1..MaxBlockType

\* ----------------------------------------------------------------- state
\* demarcate_trials
VARIABLES
    pc,                     \* position in the function under way
    df_ts,                  \* the caller's time-series table
    df_trials,              \* the caller's trial table
    created_trial_idx_col,  \* the parameter: "None" or a column name
    ts_local,               \* the function's own df_ts (from line 31 on)
    trials_local,           \* the function's own df_trials (from line 32 on)
    merged_start,           \* the table of line 35
    merged_stop,            \* the table of lines 47-56
    ret,                    \* the returned table
    call_no,                \* 1: first call, 2: call on the returned table
    first_ret               \* what the first call returned

dvars == <<pc, df_ts, df_trials, created_trial_idx_col, ts_local, trials_local,
           merged_start, merged_stop, ret, call_no, first_ret>>

\* events_to_time_series
VARIABLES
    epc,                \* "call", "done", or the exception raised
    events_array,       \* sequence of event times
    sampling_interval,
    kernel,             \* <<>> stands for None
    total_duration,     \* NoDuration stands for None
    shift,
    time_series         \* the returned array (<<>> when an exception is raised)

evars == <<epc, events_array, sampling_interval, kernel, total_duration, shift, time_series>>

\* demarcate_latency_from_event
VARIABLES
    lpc,                    \* "call", "done", or the exception raised
    ts_cols,                \* the columns of the caller's df_ts
    created_latency_col,    \* the parameter: "None" or a column name
    created_event_idx_col,  \* the parameter: "None" or a column name
    adjust_backward,
    round_precision,
    aligned,                \* the table align_to_events returned
    df_aligned,             \* the function's df_aligned when it ended
    latency_ret             \* the returned table

lvars == <<lpc, ts_cols, created_latency_col, created_event_idx_col, adjust_backward,
           round_precision, aligned, df_aligned, latency_ret>>

\* GroupTypeKFold.split
VARIABLES
    kpc,                \* "call", "generator", "suspended", "StopIteration", or the exception raised
    n_splits,
    X_len,              \* len(X)
    groups,             \* sequence of group labels; NoLabels stands for None
    group_types,        \* sequence of group types; NoLabels stands for None
    fold_assignments,   \* the array of line 30
    fold,               \* the loop variable of line 42
    yielded             \* the (train, test) pairs yielded so far

kvars == <<kpc, n_splits, X_len, groups, group_types, fold_assignments, fold, yielded>>

\* op_op/event_feature_eng.py
VARIABLES
    fpc,                \* "call", "done", or the exception raised
    fn,                 \* the function called
    df_events,          \* the rows of the caller's event table
    large_reward_amt,
    small_reward_amt,
    first_event_col,
    second_event_col,
    trial_shift,        \* the parameter shift of event_delay and its wrappers
    in_block,           \* the parameter in_block of num_prev_trials
    feature             \* the returned array

fvars == <<fpc, fn, df_events, large_reward_amt, small_reward_amt, first_event_col,
           second_event_col, trial_shift, in_block, feature>>

vars == <<dvars, evars, lvars, kvars, fvars>>

\* ------------------------------------------------------- general helpers
NaN == -999

Range(s) == {s[k] : k \in DOMAIN s}

SetMax(S) == CHOOSE x \in S : \A y \in S : y <= x

Reverse(s) == [k \in 1..Len(s) |-> s[Len(s) + 1 - k]]

SeqsUpTo(S, n) == UNION {[1..k -> S] : k \in 1..n}

Perms(n) == {p \in [1..n -> 1..n] : \A a, b \in 1..n : p[a] = p[b] => a = b}

\* The orders an ascending sort of keys may produce.  DataFrame.sort_values
\* uses quicksort, which leaves the order of equal keys open.
SortPerms(keys) ==
    {p \in Perms(Len(keys)) : \A k \in 1..(Len(keys) - 1) : keys[p[k]] <= keys[p[k + 1]]}

sort_values(rows, p) == [k \in 1..Len(rows) |-> rows[p[k]]]

IsSorted(keys) == \A k \in 1..(Len(keys) - 1) : keys[k] <= keys[k + 1]

\* Series == Series: elementwise equality, False wherever a side is NaN.
Eq(a, b) == a # NaN /\ b # NaN /\ a = b

\* ---------------------------------------------------- demarcate_trials
df_ts_time_col == "time"
df_trials_start_col == "start_time"
df_trials_end_col == "reward_collection_time"
df_trials_idx_col == "trial_idx"

NoTable == [cols |-> <<>>, rows |-> <<>>]

Col(tbl, f) == [k \in 1..Len(tbl.rows) |-> tbl.rows[k][f]]

HasCol(tbl, c) == c \in Range(tbl.cols)

\* line 29: created_trial_idx_col or df_trials_idx_col
CreatedCol == IF created_trial_idx_col = "None" THEN df_trials_idx_col
              ELSE created_trial_idx_col

\* pd.merge_asof(..., direction="backward") for one left key: the last row of
\* the right table (sorted by its key) whose key is <= the left key; 0 if none.
AsofBackward(key, rightKeys) ==
    LET J == {j \in DOMAIN rightKeys : rightKeys[j] <= key}
    IN IF J = {} THEN 0 ELSE SetMax(J)

\* The right table's value column as merge_asof attaches it to the left rows.
merge_asof(leftKeys, rightKeys, rightVals) ==
    [k \in DOMAIN leftKeys |->
        IF AsofBackward(leftKeys[k], rightKeys) = 0 THEN NaN
        ELSE rightVals[AsofBackward(leftKeys[k], rightKeys)]]

\* Column names of a merge: a name on both sides gets the suffixes _x and _y.
Suffixed(c, other, sfx) ==
    IF c \in Range(other)
    THEN (IF sfx = "_x" THEN (IF c = "trial_idx" THEN "trial_idx_x" ELSE "dup_x")
          ELSE (IF c = "trial_idx" THEN "trial_idx_y" ELSE "dup_y"))
    ELSE c

MergedCols(leftCols, rightCols) ==
    [k \in 1..Len(leftCols) |-> Suffixed(leftCols[k], rightCols, "_x")]
    \o [k \in 1..Len(rightCols) |-> Suffixed(rightCols[k], leftCols, "_y")]

\* (mutation of WhereAgree: the forward match taken without the agreement gate)
WhereAgreeNoGate(a, b) == a

\* Series.where(cond, np.nan) on the two merged trial-index columns.
WhereAgree(a, b) == [k \in DOMAIN a |-> IF Eq(a[k], b[k]) THEN a[k] ELSE NaN]

\* df[col] = series: the series has the labels 0..n-1 and each row takes the
\* value at its own row label; a label the series lacks gives NaN.
SetColumn(tbl, c, series) ==
    [cols |-> IF HasCol(tbl, c) THEN tbl.cols ELSE Append(tbl.cols, c),
     rows |-> [k \in 1..Len(tbl.rows) |->
                 [tbl.rows[k] EXCEPT !.trial =
                     IF tbl.rows[k].label + 1 \in DOMAIN series
                     THEN series[tbl.rows[k].label + 1] ELSE NaN]]]

DropCol(cols, c) == SelectSeq(cols, LAMBDA x : x # c)

\* lines 68-74: time and the created column first, the others in their order.
Reordered(cols, first) ==
    first \o SelectSeq(cols, LAMBDA x : x \notin Range(first))

\* The input domain.
TsRows(times) ==
    [k \in 1..Len(times) |->
        [label |-> k - 1, time |-> times[k], obs |-> k, trial |-> NaN,
         inverted_time |-> NaN]]

TrialRows(ivs) ==
    [k \in 1..Len(ivs) |->
        [start_time |-> ivs[k][1], reward_collection_time |-> ivs[k][2], trial_idx |-> k - 1,
         inverted_end_time |-> NaN]]

Intervals == {iv \in (0..MaxTime) \X (0..MaxTime) : iv[1] <= iv[2]}

\* Trials do not overlap when sorted by start time (a trial may begin where
\* the one before it ends).
NonOverlapping(rows) ==
    \A k \in 1..(Len(rows) - 1) : rows[k].reward_collection_time <= rows[k + 1].start_time

TrialTables ==
    {ivs \in SeqsUpTo(Intervals, MaxTrials) :
        \E p \in SortPerms([k \in 1..Len(ivs) |-> ivs[k][1]]) :
            NonOverlapping(sort_values(TrialRows(ivs), p))}

InitDemarcate ==
    /\ pc = "call"
    /\ \E times \in SeqsUpTo(0..MaxTime, MaxSamples) :
          df_ts = [cols |-> <<"time", "obs">>, rows |-> TsRows(times)]
    /\ \E ivs \in TrialTables :
          df_trials = [cols |-> <<"start_time", "reward_collection_time", "trial_idx">>,
                       rows |-> TrialRows(ivs)]
    /\ created_trial_idx_col \in {"None", "trial"}
    /\ ts_local = NoTable
    /\ trials_local = NoTable
    /\ merged_start = NoTable
    /\ merged_stop = NoTable
    /\ ret = NoTable
    /\ call_no = 1
    /\ first_ret = NoTable

\* lines 35-41: the columns of merged_start the function goes on to read
MergedStart(ts, trials) ==
    [cols |-> MergedCols(ts.cols, <<"start_time", "trial_idx">>),
     rows |-> [k \in 1..Len(ts.rows) |->
                 [time |-> ts.rows[k].time,
                  trial_idx |-> merge_asof(<<ts.rows[k].time>>,
                                           Col(trials, "start_time"),
                                           Col(trials, "trial_idx"))[1]]]]

\* line 44
MaxOfTimes(ts, trials) == SetMax(Range(Col(ts, "time")) \cup Range(Col(trials, "reward_collection_time")))

\* lines 45-46: the inverted time columns, added to the function's tables
WithInvertedTime(ts, m) ==
    [cols |-> Append(ts.cols, "inverted_time"),
     rows |-> [k \in 1..Len(ts.rows) |->
                 [ts.rows[k] EXCEPT !.inverted_time = m - ts.rows[k].time]]]

WithInvertedEnd(trials, m) ==
    [cols |-> Append(trials.cols, "inverted_end_time"),
     rows |-> [k \in 1..Len(trials.rows) |->
                 [trials.rows[k] EXCEPT !.inverted_end_time = m - trials.rows[k].reward_collection_time]]]

\* lines 47-55: the merge of the reversed time series with the trials sorted
\* by inverted end time (right), in the order of the reversed time series
MergedStopRows(ts, right) ==
    LET left == Reverse(ts.rows)
        keys == [k \in 1..Len(left) |-> left[k].inverted_time]
        vals == merge_asof(keys,
                           [k \in 1..Len(right) |-> right[k].inverted_end_time],
                           [k \in 1..Len(right) |-> right[k].trial_idx])
    IN [k \in 1..Len(left) |-> [time |-> left[k].time, trial_idx |-> vals[k]]]

\* line 56: back in ascending time order, row labels reset.  Rows of equal
\* time carry the same trial index, so every order the sort may produce is
\* the same table.
MergedStop(ts, rows) ==
    [cols |-> MergedCols(ts.cols, <<"trial_idx", "inverted_end_time">>),
     rows |-> sort_values(rows,
                  CHOOSE p \in SortPerms([k \in 1..Len(rows) |-> rows[k].time]) : TRUE)]

\* lines 59-61: the created column, set on the function's df_ts
Assigned(ts, mstart, mstop) ==
    SetColumn(ts, CreatedCol,
              WhereAgree(Col(mstart, "trial_idx"), Col(mstop, "trial_idx")))

\* lines 64-65
WithoutInvertedTime(ts) ==
    [cols |-> DropCol(ts.cols, "inverted_time"),
     rows |-> [k \in 1..Len(ts.rows) |-> [ts.rows[k] EXCEPT !.inverted_time = NaN]]]

WithoutInvertedEnd(trials) ==
    [cols |-> DropCol(trials.cols, "inverted_end_time"),
     rows |-> [k \in 1..Len(trials.rows) |->
                 [trials.rows[k] EXCEPT !.inverted_end_time = NaN]]]

\* lines 68-76
Returned(ts) == [ts EXCEPT !.cols = Reordered(ts.cols, <<"time", CreatedCol>>)]

\* (mutation of CallerTable: the caller's name and the function's name are
\* one table)
SameObject(caller, own) == own

\* lines 31-32: sort_values returns a new table and the function's name is
\* bound to it, so the column writes of lines 45-46 and 59 go to the table
\* own and the caller's table stays as it is.
CallerTable(caller, own) == caller

\* demarcate_trials, lines 29-76.  merged_start[df_trials_idx_col] (line 59)
\* raises KeyError when the merge renamed that column; the function's tables
\* then stay as lines 45-46 left them.  (Each intermediate table is bound
\* with \E over a one-element set, which evaluates it once.)
demarcate_trials ==
    /\ pc = "call"
    /\ \E p \in SortPerms(Col(df_ts, "time")) :
       \E q \in SortPerms(Col(df_trials, "start_time")) :
       \E ts1 \in {[df_ts EXCEPT !.rows = sort_values(df_ts.rows, p)]} :
       \E tr1 \in {[df_trials EXCEPT !.rows = sort_values(df_trials.rows, q)]} :
       \E mstart \in {MergedStart(ts1, tr1)} :
       \E m \in {MaxOfTimes(ts1, tr1)} :
       \E ts2 \in {WithInvertedTime(ts1, m)} :
       \E tr2 \in {WithInvertedEnd(tr1, m)} :
       \E q2 \in SortPerms(Col(tr2, "inverted_end_time")) :
       \E rows \in {MergedStopRows(ts2, sort_values(tr2.rows, q2))} :
       \E mstop \in {MergedStop(ts2, rows)} :
          /\ merged_start' = mstart
          /\ merged_stop' = mstop
          /\ IF HasCol(mstart, df_trials_idx_col)
             THEN /\ ts_local' = WithoutInvertedTime(Assigned(ts2, mstart, mstop))
                  /\ trials_local' = WithoutInvertedEnd(tr2)
                  /\ ret' = Returned(ts_local')
                  /\ df_ts' = CallerTable(df_ts, Assigned(ts2, mstart, mstop))
                  /\ pc' = "done"
             ELSE /\ ts_local' = ts2
                  /\ trials_local' = tr2
                  /\ ret' = NoTable
                  /\ df_ts' = CallerTable(df_ts, ts2)
                  /\ pc' = "KeyError"
          /\ df_trials' = CallerTable(df_trials, tr2)
    /\ UNCHANGED <<created_trial_idx_col, call_no, first_ret>>
    /\ UNCHANGED <<evars, lvars, kvars, fvars>>

\* The caller passes the returned table to demarcate_trials again, with the
\* same trial table and parameters.
CallAgain ==
    /\ pc = "done"
    /\ call_no = 1
    /\ df_ts' = ret
    /\ first_ret' = ret
    /\ call_no' = 2
    /\ ts_local' = NoTable
    /\ trials_local' = NoTable
    /\ merged_start' = NoTable
    /\ merged_stop' = NoTable
    /\ ret' = NoTable
    /\ pc' = "call"
    /\ UNCHANGED <<df_trials, created_trial_idx_col>>
    /\ UNCHANGED <<evars, lvars, kvars, fvars>>

NextDemarcate == demarcate_trials

NextDemarcateTwice ==
    \/ demarcate_trials
    \/ CallAgain

\* ------------------------------------------- demarcate_trials: properties
\* The first call has returned.
Returned1 == pc = "done" /\ call_no = 1

\* The caller's table was in ascending time order (its row labels are the
\* default 0..n-1 in the first call).
SortedInput == IsSorted(Col(df_ts, "time"))

Trials == trials_local.rows

PositiveDurations == \A i \in DOMAIN Trials : Trials[i].start_time < Trials[i].reward_collection_time

Inside(t, i) == Trials[i].start_time < t /\ t < Trials[i].reward_collection_time

InGap(t, i) == Trials[i].reward_collection_time < t /\ t < Trials[i + 1].start_time

\* C1: with a time-ordered table and non-overlapping trials, every sample
\* strictly inside trial i has trial index i in the returned table.
C1_InsideAssigned ==
    (Returned1 /\ SortedInput /\ NonOverlapping(Trials)) =>
        \A k \in DOMAIN ret.rows : \A i \in DOMAIN Trials :
            Inside(ret.rows[k].time, i) => ret.rows[k].trial = Trials[i].trial_idx

\* C1, for trial tables in which every trial lasts a positive time.
C1_InsideAssignedPositive ==
    (Returned1 /\ SortedInput /\ NonOverlapping(Trials) /\ PositiveDurations) =>
        \A k \in DOMAIN ret.rows : \A i \in DOMAIN Trials :
            Inside(ret.rows[k].time, i) => ret.rows[k].trial = Trials[i].trial_idx

C1_PositiveWitness ==
    /\ Returned1 /\ SortedInput /\ NonOverlapping(Trials) /\ PositiveDurations
    /\ \E k \in DOMAIN ret.rows : \E i \in DOMAIN Trials :
          Inside(ret.rows[k].time, i) /\ ret.rows[k].trial = Trials[i].trial_idx

\* C2: with a time-ordered table and non-overlapping trials, every sample in
\* the gap between trial i's end and trial i+1's start is unset (NaN) in the
\* returned table, although the forward match gave it trial i.
C2_GapUnset ==
    (Returned1 /\ SortedInput /\ NonOverlapping(Trials)) =>
        \A k \in DOMAIN ret.rows : \A i \in 1..(Len(Trials) - 1) :
            InGap(ret.rows[k].time, i) =>
                /\ ret.rows[k].trial = NaN
                /\ merged_start.rows[k].time = ret.rows[k].time
                /\ merged_start.rows[k].trial_idx = Trials[i].trial_idx

C2_Witness ==
    /\ Returned1 /\ SortedInput /\ NonOverlapping(Trials)
    /\ \E k \in DOMAIN ret.rows : \E i \in 1..(Len(Trials) - 1) :
          /\ InGap(ret.rows[k].time, i)
          /\ ret.rows[k].trial = NaN
          /\ merged_start.rows[k].trial_idx = Trials[i].trial_idx

DistinctStarts ==
    \A i, j \in DOMAIN Trials : Trials[i].start_time = Trials[j].start_time => i = j

\* C3: for non-overlapping trials (a trial may start where the one before it
\* ends), a sample exactly at trial i's start has trial index i in the
\* returned table.  Stated for a time-ordered table and trials with distinct
\* starts, so that the start names one trial.
C3_StartInclusive ==
    (Returned1 /\ SortedInput /\ NonOverlapping(Trials) /\ DistinctStarts) =>
        \A k \in DOMAIN ret.rows : \A i \in DOMAIN Trials :
            ret.rows[k].time = Trials[i].start_time =>
                ret.rows[k].trial = Trials[i].trial_idx

\* What the call returns when the same samples are supplied sorted by time,
\* with the default row labels.
SortedInputResult ==
    SetColumn([cols |-> df_ts.cols,
               rows |-> [k \in 1..Len(ts_local.rows) |->
                           [ts_local.rows[k] EXCEPT !.label = k - 1]]],
              CreatedCol,
              WhereAgree(Col(merged_start, "trial_idx"), Col(merged_stop, "trial_idx")))

\* C4: whatever the row order of the input, every sample (its observation
\* value names it) has in the returned table the trial index it has when the
\* table is supplied sorted by time.
C4_OrderIndependent ==
    Returned1 =>
        \A k, j \in DOMAIN ret.rows :
            ret.rows[k].obs = SortedInputResult.rows[j].obs =>
                ret.rows[k].trial = SortedInputResult.rows[j].trial

\* C5: a second call on the returned table, same trials and parameters,
\* completes and gives every sample the trial index of the first call.
C5_Idempotent ==
    call_no = 2 =>
        /\ pc # "KeyError"
        /\ pc = "done" =>
              \A k \in DOMAIN ret.rows : \A j \in DOMAIN first_ret.rows :
                  ret.rows[k].obs = first_ret.rows[j].obs =>
                      ret.rows[k].trial = first_ret.rows[j].trial

BeforeAll(t) == \A i \in DOMAIN Trials : t < Trials[i].start_time

AfterAll(t) ==
    \A i \in DOMAIN Trials : Trials[i].start_time < t /\ Trials[i].reward_collection_time < t

\* C6: a sample before the first trial's start, or after every start and end,
\* is unset in the returned table; in the second case the forward match is
\* the last trial and the backward match is nothing.
C6_OutsideUnset ==
    Returned1 =>
        \A k \in DOMAIN ret.rows :
            /\ BeforeAll(ret.rows[k].time) => ret.rows[k].trial = NaN
            /\ AfterAll(ret.rows[k].time) =>
                  /\ ret.rows[k].trial = NaN
                  /\ merged_start.rows[k].trial_idx = Trials[Len(Trials)].trial_idx
                  /\ merged_stop.rows[k].trial_idx = NaN

\* C6, for a table supplied in ascending time order.
C6_OutsideUnsetSorted == SortedInput => C6_OutsideUnset

C6_SortedWitness ==
    /\ Returned1 /\ SortedInput
    /\ \E k, j \in DOMAIN ret.rows :
          /\ BeforeAll(ret.rows[k].time) /\ ret.rows[k].trial = NaN
          /\ AfterAll(ret.rows[j].time) /\ ret.rows[j].trial = NaN
          /\ merged_stop.rows[j].trial_idx = NaN

\* No trial other than trial i starts after trial i's start and up to its end.
NoStartWithin(i) ==
    \A j \in DOMAIN Trials :
        j # i => ~(Trials[i].start_time < Trials[j].start_time
                   /\ Trials[j].start_time <= Trials[i].reward_collection_time)

AtEnd(t, i) == t = Trials[i].reward_collection_time

\* C20: a sample at trial i's end, no other trial starting after trial i's
\* start and up to that end, has trial index i in the returned table.
C20_EndInclusive ==
    Returned1 =>
        \A k \in DOMAIN ret.rows : \A i \in DOMAIN Trials :
            (AtEnd(ret.rows[k].time, i) /\ NoStartWithin(i)) =>
                ret.rows[k].trial = Trials[i].trial_idx

\* C20, for a table supplied in ascending time order.
C20_EndInclusiveSorted == SortedInput => C20_EndInclusive

\* C20, for a table supplied in ascending time order and trials that each
\* last a positive time.
C20_EndInclusiveSortedPositive == (SortedInput /\ PositiveDurations) => C20_EndInclusive

C20_SortedPositiveWitness ==
    /\ Returned1 /\ SortedInput /\ PositiveDurations
    /\ Len(Trials) = 2
    /\ \E k \in DOMAIN ret.rows : \E i \in DOMAIN Trials :
          /\ AtEnd(ret.rows[k].time, i)
          /\ NoStartWithin(i)
          /\ ret.rows[k].trial = Trials[i].trial_idx

\* C19: a call of demarcate_trials leaves the caller's df_ts and df_trials as
\* they were, rows, row order and columns; after it neither has an
\* inverted_time, inverted_end_time or trial-index column, and the returned
\* table has the trial-index column.
C19_CallerTablesUnchanged ==
    /\ [][pc = "call" => (df_ts' = df_ts /\ df_trials' = df_trials)]_vars
    /\ [](pc = "done" =>
            /\ ~HasCol(df_ts, "inverted_time")
            /\ ~HasCol(df_ts, CreatedCol)
            /\ ~HasCol(df_trials, "inverted_end_time")
            /\ HasCol(ret, CreatedCol))

\* A call on a time series that was not in time order: the function's own
\* table is sorted and the caller's is not.
C19_Witness ==
    /\ pc = "done"
    /\ ~IsSorted(Col(df_ts, "time"))
    /\ IsSorted(Col(ts_local, "time"))
    /\ HasCol(ret, CreatedCol)
    /\ Len(df_trials.rows) = 2

\* ------------------------------------------------ events_to_time_series
\* Times and the sampling interval are whole multiples of one time unit, so
\* the divisions of lines 29 and 33 are exact rational arithmetic.
NoDuration == -999

\* int(np.ceil(total_duration / sampling_interval)), line 29
NTimesteps(total, si) ==
    IF total >= 0 THEN (total + si - 1) \div si ELSE -((-total) \div si)

\* (events_array / sampling_interval).astype(int), line 33: towards zero
EventIndex(e, si) == IF e >= 0 THEN e \div si ELSE -((-e) \div si)

Zeros(n) == [k \in 1..n |-> 0]

\* numpy index i of an array of length n: position i + 1, negative i counted
\* from the end
Position(i, n) == IF i >= 0 THEN i + 1 ELSE n + i + 1

InBounds(i, n) == -n <= i /\ i < n

\* (mutation of SetOnes: one added per event instead of the entry set to 1)
SetOnesAccumulate(ts, indices) ==
    [k \in 1..Len(ts) |->
        ts[k] + Cardinality({j \in DOMAIN indices : Position(indices[j], Len(ts)) = k})]

\* time_series[event_indices] = 1, line 35 (indices in bounds)
SetOnes(ts, indices) ==
    [k \in 1..Len(ts) |->
        IF \E j \in DOMAIN indices : Position(indices[j], Len(ts)) = k THEN 1 ELSE ts[k]]

SeqSum(f, lo, hi) ==
    LET S[k \in (lo - 1)..hi] == IF k < lo THEN 0 ELSE S[k - 1] + f[k]
    IN S[hi]

\* the full discrete convolution at 0-based index j
FullConv(ts, kern, j) ==
    LET n == Len(ts)
        terms == [i \in 1..n |->
                    IF 0 <= j - (i - 1) /\ j - (i - 1) < Len(kern)
                    THEN ts[i] * kern[j - (i - 1) + 1] ELSE 0]
    IN SeqSum(terms, 1, n)

\* scipy.signal.convolve(time_series, kernel, mode="same"), line 37: the
\* full convolution cut to the length of time_series, centred
ConvolveSame(ts, kern) ==
    [k \in 1..Len(ts) |-> FullConv(ts, kern, (k - 1) + ((Len(kern) - 1) \div 2))]

\* np.roll(time_series, shift), line 39
Roll(ts, s) ==
    IF Len(ts) = 0 THEN ts
    ELSE SubSeq(ts, Len(ts) - (s % Len(ts)) + 1, Len(ts))
         \o SubSeq(ts, 1, Len(ts) - (s % Len(ts)))

\* lines 36-39
Smoothed(ts, kern) == IF kern # <<>> THEN ConvolveSame(ts, kern) ELSE ts

\* (mutation of ConvolveAndRoll: the shift applied before the convolution)
RollThenConvolve(ts, kern, s) == Smoothed(Roll(ts, s), kern)

ConvolveAndRoll(ts, kern, s) == Roll(Smoothed(ts, kern), s)

\* events_to_time_series, lines 26-41: [status, value]
EventsToTimeSeries(events, si, kern, total, s) ==
    IF total = NoDuration /\ events = <<>>
    THEN [status |-> "ValueError", value |-> <<>>]         \* np.max of nothing
    ELSE LET dur == IF total = NoDuration THEN SetMax(Range(events)) ELSE total
             n == NTimesteps(dur, si)
             idx == [j \in DOMAIN events |-> EventIndex(events[j], si)]
         IN IF n < 0
            THEN [status |-> "ValueError", value |-> <<>>]  \* np.zeros(n), n < 0
            ELSE IF \E j \in DOMAIN idx : ~InBounds(idx[j], n)
            THEN [status |-> "IndexError", value |-> <<>>]
            ELSE [status |-> "done",
                  value |-> ConvolveAndRoll(SetOnes(Zeros(n), idx), kern, s)]

EventTimes == 0..MaxDuration

Kernels == {<<>>} \cup SeqsUpTo({1, 2}, MaxKernel)

InitEvents ==
    /\ epc = "call"
    /\ events_array \in {<<>>} \cup SeqsUpTo(EventTimes, MaxEvents)
    /\ sampling_interval \in 1..MaxInterval
    /\ kernel \in Kernels
    /\ total_duration \in {NoDuration} \cup (0..MaxDuration)
    /\ shift \in (-MaxShift)..MaxShift
    /\ time_series = <<>>

events_to_time_series ==
    /\ epc = "call"
    /\ \E r \in {EventsToTimeSeries(events_array, sampling_interval, kernel,
                                    total_duration, shift)} :
          /\ epc' = r.status
          /\ time_series' = r.value
    /\ UNCHANGED <<events_array, sampling_interval, kernel, total_duration, shift>>
    /\ UNCHANGED <<dvars, lvars, kvars, fvars>>

IdleEvents ==
    /\ epc = "idle"
    /\ events_array = <<>>
    /\ sampling_interval = 1
    /\ kernel = <<>>
    /\ total_duration = NoDuration
    /\ shift = 0
    /\ time_series = <<>>

\* ------------------------------------- events_to_time_series: properties
EventsInRange ==
    /\ total_duration # NoDuration
    /\ \A j \in DOMAIN events_array :
          0 <= events_array[j] /\ events_array[j] < total_duration

\* e falls in sample k: k = trunc(e / sampling_interval), e >= 0
FallsIn(e, k) == k * sampling_interval <= e /\ e < (k + 1) * sampling_interval

\* C7: no kernel, shift 0, events in [0, total_duration): the call returns
\* ceil(total_duration / sampling_interval) entries, entry k is 1 if an
\* event truncates to k and 0 otherwise (never above 1).
C7_Indicator ==
    (epc # "call" /\ kernel = <<>> /\ shift = 0 /\ EventsInRange) =>
        /\ epc = "done"
        /\ Len(time_series) * sampling_interval >= total_duration
        /\ (Len(time_series) - 1) * sampling_interval < total_duration
        /\ \A k \in 0..(Len(time_series) - 1) :
              time_series[k + 1] =
                  IF \E j \in DOMAIN events_array : FallsIn(events_array[j], k)
                  THEN 1 ELSE 0

\* two events in one sample, marked by a single 1
C7_Witness ==
    /\ epc = "done" /\ kernel = <<>> /\ shift = 0 /\ EventsInRange
    /\ \E i, j \in DOMAIN events_array : \E k \in 0..(Len(time_series) - 1) :
          /\ i # j
          /\ FallsIn(events_array[i], k) /\ FallsIn(events_array[j], k)
          /\ time_series[k + 1] = 1
    /\ \E k \in 1..Len(time_series) : time_series[k] = 0

Shift0Result ==
    EventsToTimeSeries(events_array, sampling_interval, kernel, total_duration, 0)

\* C8: for every shift s, with or without a kernel, the returned array is the
\* shift-0 result rotated by s: same length, out_s[i] = out_0[(i - s) mod n].
C8_CircularShift ==
    epc = "done" =>
        /\ Shift0Result.status = "done"
        /\ Len(time_series) = Len(Shift0Result.value)
        /\ \A i \in 0..(Len(time_series) - 1) :
              time_series[i + 1] =
                  Shift0Result.value[((i - shift) % Len(time_series)) + 1]

\* a kernelled series shifted past an end: the entry pushed out comes back
C8_Witness ==
    /\ epc = "done" /\ kernel # <<>> /\ shift < 0
    /\ Len(time_series) >= 2
    /\ Shift0Result.value[1] # 0
    /\ time_series[Len(time_series) + shift + 1] = Shift0Result.value[1]
    /\ time_series # Shift0Result.value

DurationOmitted == epc # "call" /\ total_duration = NoDuration /\ events_array # <<>>

LatestEvent == SetMax(Range(events_array))

\* The sample an event of time e >= 0 truncates to.
SampleOf(e) == CHOOSE k \in 0..e : FallsIn(e, k)

\* C22: with total_duration omitted and at least one event, the call returns;
\* every event, the latest included, truncates to a sample below the length
\* of the returned array, and with no kernel and shift 0 that sample is 1.
C22_DurationOmitted ==
    DurationOmitted =>
        /\ epc = "done"
        /\ \A j \in DOMAIN events_array :
               /\ SampleOf(events_array[j]) < Len(time_series)
               /\ (kernel = <<>> /\ shift = 0) =>
                      time_series[SampleOf(events_array[j]) + 1] = 1

\* C22, for calls in which the latest event time is no multiple of
\* sampling_interval.
C22_DurationOmittedOffGrid ==
    (DurationOmitted /\ LatestEvent % sampling_interval # 0) => C22_DurationOmitted

C22_OffGridWitness ==
    /\ DurationOmitted
    /\ epc = "done"
    /\ kernel = <<>>
    /\ shift = 0
    /\ LatestEvent % sampling_interval # 0
    /\ Len(events_array) = 2
    /\ events_array[1] # events_array[2]
    /\ time_series[SampleOf(LatestEvent) + 1] = 1

\* ----------------------------------------- demarcate_latency_from_event
\* Latencies are whole multiples of 0.005 s; round_precision is 1 or 2.
temp_event_idx_col == "event_idx_TEMP"

\* line 111
LatencyCol ==
    IF created_latency_col = "None" THEN "latency_from_start_time"
    ELSE created_latency_col

\* 10 ** -round_precision, in units of 0.005
Quantum(p) == IF p = 2 THEN 2 ELSE 20

\* Series.diff(), line 129
Diff(lat) ==
    [k \in 1..Len(lat) |->
        IF k = 1 THEN NaN
        ELSE IF lat[k] = NaN \/ lat[k - 1] = NaN THEN NaN
        ELSE lat[k] - lat[k - 1]]

\* Series.median(), line 129: of the values that are not NaN, the middle one
\* or the mean of the two middle ones
Median(d) ==
    LET vals == SelectSeq(d, LAMBDA x : x # NaN)
        n == Len(vals)
        sorted == sort_values(vals, CHOOSE p \in SortPerms(vals) : TRUE)
    IN IF n = 0 THEN NaN
       ELSE (sorted[(n + 1) \div 2] + sorted[(n + 2) \div 2]) \div 2

\* Series.round(round_precision) on one value, lines 131-133: to the nearest
\* multiple of the quantum, a tie to the even multiple
Round(x, q) ==
    IF x = NaN THEN NaN
    ELSE IF 2 * (x % q) < q THEN (x \div q) * q
    ELSE IF 2 * (x % q) > q THEN ((x \div q) + 1) * q
    ELSE IF (x \div q) % 2 = 0 THEN (x \div q) * q
    ELSE ((x \div q) + 1) * q

\* line 130
Minus(x, dt) == IF x = NaN \/ dt = NaN THEN NaN ELSE x - dt

\* (mutation of Adjusted: the correction applied whatever adjust_backward is)
AdjustedAlways(lat, adjust, p) ==
    [k \in 1..Len(lat) |-> Round(Minus(lat[k], Median(Diff(lat))), Quantum(p))]

\* lines 128-133
Adjusted(lat, adjust, p) ==
    IF adjust
    THEN [k \in 1..Len(lat) |-> Round(Minus(lat[k], Median(Diff(lat))), Quantum(p))]
    ELSE lat

\* lines 134-139
EventIdxRenamed(cols, created) ==
    IF created = "None" THEN DropCol(cols, temp_event_idx_col)
    ELSE [k \in 1..Len(cols) |->
            IF cols[k] = temp_event_idx_col THEN created ELSE cols[k]]

\* lines 142-144
FirstCols(created) ==
    IF created # "None" THEN <<df_ts_time_col, LatencyCol, temp_event_idx_col>>
    ELSE <<df_ts_time_col, LatencyCol>>

\* What align_to_events (calcium_clear) may return for the call of lines
\* 117-127: the columns of df_ts with the event-index and aligned-time
\* columns added, one row per df_ts row, the aligned time NaN outside the
\* windows.
LatencyValues == {NaN} \cup {10 * j : j \in 0..MaxLatency}

AlignedTables ==
    {[cols |-> ts_cols \o new, latency |-> lat] :
        new \in {<<temp_event_idx_col, LatencyCol>>, <<LatencyCol, temp_event_idx_col>>},
        lat \in SeqsUpTo(LatencyValues, MaxRows)}

InitLatency ==
    /\ lpc = "call"
    /\ ts_cols \in {<<"time", "obs">>, <<"obs", "time">>}
    /\ created_latency_col \in {"None", "latency"}
    /\ created_event_idx_col \in {"None", "event_idx", "event_idx_TEMP"}
    /\ adjust_backward \in BOOLEAN
    /\ round_precision \in {1, 2}
    /\ aligned = [cols |-> <<>>, latency |-> <<>>]
    /\ df_aligned = [cols |-> <<>>, latency |-> <<>>]
    /\ latency_ret = [cols |-> <<>>, latency |-> <<>>]

\* demarcate_latency_from_event, lines 111-148.  df_aligned[first_cols +
\* other_cols] (line 146) raises KeyError when a name of the list is not a
\* column of df_aligned.
demarcate_latency_from_event ==
    /\ lpc = "call"
    /\ \E al \in AlignedTables :
       \E adj \in {[cols |-> EventIdxRenamed(al.cols, created_event_idx_col),
                    latency |-> Adjusted(al.latency, adjust_backward, round_precision)]} :
          /\ aligned' = al
          /\ IF Range(FirstCols(created_event_idx_col)) \subseteq Range(adj.cols)
             THEN /\ df_aligned' =
                        [adj EXCEPT !.cols =
                            Reordered(adj.cols, FirstCols(created_event_idx_col))]
                  /\ latency_ret' = df_aligned'
                  /\ lpc' = "done"
             ELSE /\ df_aligned' = adj
                  /\ latency_ret' = [cols |-> <<>>, latency |-> <<>>]
                  /\ lpc' = "KeyError"
    /\ UNCHANGED <<ts_cols, created_latency_col, created_event_idx_col, adjust_backward,
                   round_precision>>
    /\ UNCHANGED <<dvars, evars, kvars, fvars>>

IdleLatency ==
    /\ lpc = "idle"
    /\ ts_cols = <<>>
    /\ created_latency_col = "None"
    /\ created_event_idx_col = "None"
    /\ adjust_backward = FALSE
    /\ round_precision = 1
    /\ aligned = [cols |-> <<>>, latency |-> <<>>]
    /\ df_aligned = [cols |-> <<>>, latency |-> <<>>]
    /\ latency_ret = [cols |-> <<>>, latency |-> <<>>]

\* ------------------------------ demarcate_latency_from_event: properties
\* the columns of df_ts other than the time column, in their order
RemainingCols == SelectSeq(ts_cols, LAMBDA c : c # df_ts_time_col)

\* C9: for both settings of created_event_idx_col the call returns the
\* columns time, latency, the event-index column when one is asked for, then
\* the remaining columns in their order; without created_event_idx_col the
\* output has no event-index column.
C9_ColumnOrder ==
    lpc # "call" =>
        /\ lpc = "done"
        /\ latency_ret.cols =
              <<df_ts_time_col, LatencyCol>>
              \o (IF created_event_idx_col = "None" THEN <<>>
                  ELSE <<created_event_idx_col>>)
              \o RemainingCols

\* C9, when no event-index column is asked for.
C9_ColumnOrderNoEventIdx ==
    (lpc # "call" /\ created_event_idx_col = "None") =>
        /\ lpc = "done"
        /\ latency_ret.cols = <<df_ts_time_col, LatencyCol>> \o RemainingCols

\* twice the value x of rank r (0-based, ascending) among the values of d
HasRank(x, r, d) ==
    /\ Cardinality({i \in DOMAIN d : d[i] < x}) <= r
    /\ r < Cardinality({i \in DOMAIN d : d[i] <= x})

\* m2 is twice the median of the values of d (d not empty)
IsTwiceMedian(m2, d) ==
    \E i, j \in DOMAIN d :
        /\ HasRank(d[i], (Len(d) - 1) \div 2, d)
        /\ HasRank(d[j], Len(d) \div 2, d)
        /\ m2 = d[i] + d[j]

\* v is x2 / 2 rounded to a multiple of q, a tie to the even multiple
IsRounded(v, x2, q) ==
    /\ v % q = 0
    /\ 2 * v - x2 <= q /\ x2 - 2 * v <= q
    /\ (2 * v - x2 = q \/ x2 - 2 * v = q) => (v \div q) % 2 = 0

SuccessiveDiffs ==
    LET lat == aligned.latency
        ks == {k \in 2..Len(lat) : lat[k] # NaN /\ lat[k - 1] # NaN}
        order == CHOOSE f \in [1..Cardinality(ks) -> ks] :
                    \A a, b \in 1..Cardinality(ks) : a < b => f[a] < f[b]
    IN [a \in 1..Cardinality(ks) |-> lat[order[a]] - lat[order[a] - 1]]

\* C10: with adjust_backward every latency is the aligned value minus the
\* median of the successive differences of the latency column, rounded to
\* round_precision; without it every latency is the aligned value.
C10_DriftCorrection ==
    lpc # "call" =>
        /\ Len(df_aligned.latency) = Len(aligned.latency)
        /\ \A k \in DOMAIN aligned.latency :
              IF ~adjust_backward
              THEN df_aligned.latency[k] = aligned.latency[k]
              ELSE IF aligned.latency[k] = NaN \/ SuccessiveDiffs = <<>>
              THEN df_aligned.latency[k] = NaN
              ELSE \E m2 \in {SuccessiveDiffs[i] + SuccessiveDiffs[j] :
                                i, j \in DOMAIN SuccessiveDiffs} :
                      /\ IsTwiceMedian(m2, SuccessiveDiffs)
                      /\ IsRounded(df_aligned.latency[k],
                                   2 * aligned.latency[k] - m2,
                                   Quantum(round_precision))

\* a correction that moved a latency and rounded it off the grid of
\* the aligned values
C10_Witness ==
    /\ lpc = "done" /\ adjust_backward
    /\ \E k \in DOMAIN aligned.latency :
          /\ aligned.latency[k] # NaN
          /\ df_aligned.latency[k] # NaN
          /\ df_aligned.latency[k] # aligned.latency[k]
          /\ df_aligned.latency[k] # aligned.latency[k] - Median(Diff(aligned.latency))

\* ------------------------------------------------ GroupTypeKFold.split
NoLabels == <<>>

\* The ascending sequence of the elements of a set of numbers.
RECURSIVE SortedSeq(_)
SortedSeq(S) ==
    IF S = {} THEN <<>>
    ELSE LET m == CHOOSE x \in S : \A y \in S : x <= y
         IN <<m>> \o SortedSeq(S \ {m})

\* (mutation of unique: the distinct values of a in the order of their first
\* appearance)
RECURSIVE FirstAppearance(_)
FirstAppearance(a) ==
    IF a = <<>> THEN <<>>
    ELSE LET r == FirstAppearance(SubSeq(a, 1, Len(a) - 1))
         IN IF a[Len(a)] \in Range(r) THEN r ELSE Append(r, a[Len(a)])

\* np.unique: the distinct values of a, sorted ascending.
unique(a) == SortedSeq(Range(a))

\* np.flatnonzero: the 0-based positions where the mask holds, ascending.
flatnonzero(mask) == SortedSeq({k - 1 : k \in {j \in DOMAIN mask : mask[j]}})

\* a == v, elementwise
EqMask(a, v) == [k \in DOMAIN a |-> a[k] = v]

\* a != v, elementwise
NeMask(a, v) == [k \in DOMAIN a |-> a[k] # v]

\* a[idx] for an array idx of 0-based positions
Take(a, idx) == [k \in DOMAIN idx |-> a[idx[k] + 1]]

\* np.full(n, v)
Full(n, v) == [k \in 1..n |-> v]

\* a[idx] = v
SetItems(a, idx, v) == [k \in DOMAIN a |-> IF (k - 1) \in Range(idx) THEN v ELSE a[k]]

\* (mutation of Missing: only groups is looked at)
MissingGroupsOnly(gs, ts) == gs = NoLabels

\* lines 19-22: the guard of the ValueError
Missing(gs, ts) == gs = NoLabels \/ ts = NoLabels

\* (mutation of group_indices: only the first sample of the group)
FirstIndexOnly(gs, group) ==
    LET all == SortedSeq({k - 1 : k \in {j \in DOMAIN gs : gs[j] = group}})
    IN IF all = <<>> THEN <<>> ELSE <<all[1]>>

\* line 38
group_indices(gs, group) == flatnonzero(EqMask(gs, group))

\* (mutation of NextFold: the counter stands still)
SameFold(f, n) == f

\* line 40
NextFold(f, n) == (f + 1) % n

\* lines 36-40: the groups of one type, in the order of type_groups
RECURSIVE AssignGroups(_, _, _, _, _)
AssignGroups(fa, gs, type_groups, f, n) ==
    IF type_groups = <<>> THEN fa
    ELSE AssignGroups(SetItems(fa, group_indices(gs, Head(type_groups)), f),
                      gs, Tail(type_groups), NextFold(f, n), n)

\* line 33
type_indices(ts, group_type) == flatnonzero(EqMask(ts, group_type))

\* line 34
TypeGroups(gs, ts, group_type) == unique(Take(gs, type_indices(ts, group_type)))

\* lines 32-40: the group types, in the order of unique_group_types
RECURSIVE AssignTypes(_, _, _, _, _)
AssignTypes(fa, gs, ts, types, n) ==
    IF types = <<>> THEN fa
    ELSE AssignTypes(AssignGroups(fa, gs, TypeGroups(gs, ts, Head(types)), 0, n),
                     gs, ts, Tail(types), n)

\* lines 28-40
FoldAssignments(len, gs, ts, n) == AssignTypes(Full(len, -1), gs, ts, unique(ts), n)

\* line 43
test_idx(fa, f) == flatnonzero(EqMask(fa, f))

\* (mutation of train_idx: every sample)
AllIdx(fa, f) == [k \in DOMAIN fa |-> k - 1]

\* line 44
train_idx(fa, f) == flatnonzero(NeMask(fa, f))

\* line 45
Pair(fa, f) == [train |-> train_idx(fa, f), test |-> test_idx(fa, f)]

InitKFold ==
    /\ kpc = "call"
    /\ n_splits \in 2..MaxSplits
    /\ X_len \in 1..MaxLen
    /\ groups \in {NoLabels} \cup [1..X_len -> 1..MaxGroup]
    /\ group_types \in {NoLabels} \cup [1..X_len -> 1..MaxType]
    /\ fold_assignments = <<>>
    /\ fold = 0
    /\ yielded = <<>>

\* split(X, y, groups, group_types): the call makes a generator and runs
\* none of the body.
split ==
    /\ kpc = "call"
    /\ kpc' = "generator"
    /\ UNCHANGED <<n_splits, X_len, groups, group_types, fold_assignments, fold, yielded>>
    /\ UNCHANGED <<dvars, evars, lvars, fvars>>

\* The first next() on the generator: lines 19-40 and the first pass of the
\* loop of line 42, up to the yield of line 45.
split_body ==
    /\ kpc = "generator"
    /\ IF Missing(groups, group_types)
       THEN /\ kpc' = "ValueError"
            /\ UNCHANGED <<fold_assignments, fold, yielded>>
       ELSE \E fa \in {FoldAssignments(X_len, groups, group_types, n_splits)} :
            /\ fold_assignments' = fa
            /\ fold' = 0
            /\ yielded' = Append(yielded, Pair(fa, 0))
            /\ kpc' = "suspended"
    /\ UNCHANGED <<n_splits, X_len, groups, group_types>>
    /\ UNCHANGED <<dvars, evars, lvars, fvars>>

\* A later next(): the next pass of the loop of line 42, or its end.
split_resume ==
    /\ kpc = "suspended"
    /\ IF fold + 1 < n_splits
       THEN /\ fold' = fold + 1
            /\ yielded' = Append(yielded, Pair(fold_assignments, fold + 1))
            /\ kpc' = kpc
       ELSE /\ kpc' = "StopIteration"
            /\ UNCHANGED <<fold, yielded>>
    /\ UNCHANGED <<n_splits, X_len, groups, group_types, fold_assignments>>
    /\ UNCHANGED <<dvars, evars, lvars, fvars>>

NextKFold == split \/ split_body \/ split_resume

IdleKFold ==
    /\ kpc = "idle"
    /\ n_splits = 2
    /\ X_len = 0
    /\ groups = NoLabels
    /\ group_types = NoLabels
    /\ fold_assignments = <<>>
    /\ fold = 0
    /\ yielded = <<>>


\* ------------------------------------- GroupTypeKFold.split: properties
Samples == 0..(X_len - 1)

TestSet(k) == Range(yielded[k].test)

TrainSet(k) == Range(yielded[k].train)

Exhausted == kpc = "StopIteration"

GroupOf(i) == groups[i + 1]

TypeOf(i) == group_types[i + 1]

\* C11: once split has yielded all its pairs, any two samples with the same
\* group label are both in the test set of one fold, and neither is in the
\* test set of any other fold.
C11_GroupsIntact ==
    Exhausted =>
        \A i, j \in Samples :
            GroupOf(i) = GroupOf(j) =>
                \E k \in DOMAIN yielded :
                    /\ i \in TestSet(k)
                    /\ j \in TestSet(k)
                    /\ \A m \in DOMAIN yielded \ {k} :
                           i \notin TestSet(m) /\ j \notin TestSet(m)

\* A group of two samples of different group types, and a sample of another
\* group tested in another fold.
C11_Witness ==
    /\ Exhausted
    /\ \E i, j, h \in Samples :
           /\ i # j
           /\ GroupOf(i) = GroupOf(j)
           /\ TypeOf(i) # TypeOf(j)
           /\ GroupOf(h) # GroupOf(i)
           /\ \E k, m \in DOMAIN yielded :
                  k # m /\ i \in TestSet(k) /\ j \in TestSet(k) /\ h \in TestSet(m)

NoRepeats(a) == Cardinality(Range(a)) = Len(a)

\* C12: split never yields more than n_splits pairs and has yielded exactly
\* n_splits when it ends; the k-th pair is the one of fold k - 1; in each
\* pair train and test are disjoint and together are all sample indices;
\* the test sets are pairwise disjoint and together are all sample indices.
C12_Partition ==
    /\ Len(yielded) <= n_splits
    /\ Exhausted =>
        /\ Len(yielded) = n_splits
        /\ \A k \in DOMAIN yielded :
               /\ NoRepeats(yielded[k].train)
               /\ NoRepeats(yielded[k].test)
               /\ TestSet(k) = {i \in Samples : fold_assignments[i + 1] = k - 1}
               /\ TrainSet(k) \cap TestSet(k) = {}
               /\ TrainSet(k) \cup TestSet(k) = Samples
        /\ \A k, m \in DOMAIN yielded : k # m => TestSet(k) \cap TestSet(m) = {}
        /\ UNION {TestSet(k) : k \in DOMAIN yielded} = Samples

\* Three folds, each with a sample to test and samples to train on.
C12_Witness ==
    /\ Exhausted
    /\ n_splits = 3
    /\ \A k \in DOMAIN yielded : TestSet(k) # {} /\ TrainSet(k) # {}

FoldsAssigned == kpc \in {"suspended", "StopIteration"}

FoldOf(i) == fold_assignments[i + 1]

TypesPresent == {TypeOf(i) : i \in Samples}

GroupsOfType(t) == {GroupOf(i) : i \in {j \in Samples : TypeOf(j) = t}}

SingleTyped == \A i, j \in Samples : GroupOf(i) = GroupOf(j) => TypeOf(i) = TypeOf(j)

\* The groups of type t in the order in which they first appear in the input.
AppearanceOrder(t) ==
    FirstAppearance(Take(groups, SortedSeq({i \in Samples : TypeOf(i) = t})))

\* The number of groups of type t whose label is smaller than g.
Rank(t, g) == Cardinality({h \in GroupsOfType(t) : h < g})

\* The group type whose pass of the loop of line 32 is the last to assign g.
LastType(g) == SetMax({TypeOf(i) : i \in {j \in Samples : GroupOf(j) = g}})

\* C13 as stated: when every group has one group type, the k-th group of a
\* type in the order of first appearance gets fold (k - 1) mod n_splits.
C13_FirstAppearanceOrder ==
    (FoldsAssigned /\ SingleTyped) =>
        \A t \in TypesPresent :
            \A k \in DOMAIN AppearanceOrder(t) :
                \A i \in Samples :
                    GroupOf(i) = AppearanceOrder(t)[k] => FoldOf(i) = (k - 1) % n_splits

\* C13 amended: within each group type the groups get folds 0, 1, ...,
\* n_splits - 1, 0, ... in the ascending order of their labels, the counter
\* restarting at 0 for each type; a group found under several group types
\* keeps the fold of the largest of its types.
C13_SortedOrder ==
    FoldsAssigned =>
        \A i \in Samples :
            FoldOf(i) = Rank(LastType(GroupOf(i)), GroupOf(i)) % n_splits

\* Two group types, and a type whose groups first appear in an order that is
\* not the ascending one.
C13_Witness ==
    /\ FoldsAssigned
    /\ SingleTyped
    /\ Cardinality(TypesPresent) = 2
    /\ \E t \in TypesPresent : AppearanceOrder(t) # SortedSeq(GroupsOfType(t))

Folds == 0..(n_splits - 1)

\* The groups of type t that fold f tests.
GroupsIn(t, f) ==
    {g \in GroupsOfType(t) : \A i \in Samples : GroupOf(i) = g => FoldOf(i) = f}

\* The round-robin positions f, f + n_splits, ... among the groups of type t.
PositionsOf(t, f) ==
    {p \in 0..(Cardinality(GroupsOfType(t)) - 1) : p % n_splits = f}

\* C14: when every group has a single group type, each fold tests as many
\* groups of a type as that type has round-robin positions for the fold, so
\* the numbers of a type's groups in two folds differ by at most one.
C14_Balanced ==
    (FoldsAssigned /\ SingleTyped) =>
        \A t \in TypesPresent :
            /\ \A f \in Folds :
                   Cardinality(GroupsIn(t, f)) = Cardinality(PositionsOf(t, f))
            /\ \A f, h \in Folds :
                   Cardinality(GroupsIn(t, f)) - Cardinality(GroupsIn(t, h)) \in {-1, 0, 1}

\* A type with more groups than folds: the round robin wraps around.
C14_Witness ==
    /\ FoldsAssigned
    /\ SingleTyped
    /\ \E t \in TypesPresent :
           /\ Cardinality(GroupsOfType(t)) > n_splits
           /\ \E f, h \in Folds : Cardinality(GroupsIn(t, f)) # Cardinality(GroupsIn(t, h))

\* C18: with groups or group_types missing, split yields no pair and never
\* gets past its guard: the generator it returns raises ValueError the first
\* time it is advanced, whatever len(X) and n_splits are.
C18_MissingRaises ==
    (kpc # "idle" /\ (groups = NoLabels \/ group_types = NoLabels)) =>
        /\ yielded = <<>>
        /\ fold_assignments = <<>>
        /\ kpc \in {"call", "generator", "ValueError"}

\* The ValueError with only group_types missing, for the largest n_splits.
C18_Witness ==
    /\ kpc = "ValueError"
    /\ groups # NoLabels
    /\ group_types = NoLabels
    /\ n_splits = MaxSplits
    /\ yielded = <<>>

\* ------------------------------------------------- event_feature_eng.py
\* An object Series holds "True", "False" or the missing value "nan".
NoChoice == "nan"

\* A row of df_events; the columns a function does not read are 0.
EventRow(idx, chose, start, init, touch, reward) ==
    [trial_idx |-> idx, chose_large |-> chose, start_time |-> start,
     mouse_init_time |-> init, screen_touch_time |-> touch,
     reward_collection_time |-> reward]

\* df_events[col]
Column(rows, c) == [k \in DOMAIN rows |-> rows[k][c]]

\* (mutation of Shift: no shift)
Unshifted(a, n, fill) == a

\* Series.shift(n), n >= 0: the values move n rows down, fill comes in on top
Shift(a, n, fill) == [k \in DOMAIN a |-> IF k <= n THEN fill ELSE a[k - n]]

\* line 50: the dict of Series.map; a value that is no key becomes NaN
RewardOf(v, large, small) ==
    IF v = "True" THEN large
    ELSE IF v = "False" THEN small
    ELSE IF v = NoChoice THEN 0
    ELSE NaN

\* Series.cumsum(): the running sum, NaN skipped and left NaN in its place
cumsum(a) ==
    LET S[k \in 0..Len(a)] ==
            IF k = 0 THEN 0 ELSE IF a[k] = NaN THEN S[k - 1] ELSE S[k - 1] + a[k]
    IN [k \in DOMAIN a |-> IF a[k] = NaN THEN NaN ELSE S[k]]

\* cumulative_reward, lines 47-52
CumulativeReward(rows, large, small) ==
    LET shifted == Shift(Column(rows, "chose_large"), 1, NoChoice)
    IN cumsum([k \in DOMAIN shifted |-> RewardOf(shifted[k], large, small)])

ChoiceTables ==
    UNION {[1..n -> {EventRow(0, c, 0, 0, 0, 0) : c \in {"True", "False"}}] :
           n \in 0..MaxEventRows}

InitReward ==
    /\ fpc = "call"
    /\ fn = "cumulative_reward"
    /\ df_events \in ChoiceTables
    /\ large_reward_amt \in 0..MaxAmount
    /\ small_reward_amt \in 0..MaxAmount
    /\ first_event_col = "None"
    /\ second_event_col = "None"
    /\ trial_shift = 0
    /\ in_block = FALSE
    /\ feature = <<>>

cumulative_reward ==
    /\ fpc = "call"
    /\ fn = "cumulative_reward"
    /\ feature' = CumulativeReward(df_events, large_reward_amt, small_reward_amt)
    /\ fpc' = "done"
    /\ UNCHANGED <<fn, df_events, large_reward_amt, small_reward_amt, first_event_col,
                   second_event_col, trial_shift, in_block>>
    /\ UNCHANGED <<dvars, evars, lvars, kvars>>

NextReward == cumulative_reward

\* Series.unique(): the distinct values in the order of their first appearance
Series_unique(a) ==
    LET firsts == SortedSeq({k \in DOMAIN a : \A j \in 1..(k - 1) : a[j] # a[k]})
    IN [i \in DOMAIN firsts |-> a[firsts[i]]]

\* The rows a boolean mask selects, as ascending row positions.
RowsWhere(rows, c, v) == SortedSeq({k \in DOMAIN rows : rows[k][c] = v})

\* (mutation of PrevTrial: the trial itself)
SameTrial(trial) == trial

\* line 168: trial_idx - 1
PrevTrial(trial) == trial - 1

\* lines 163-172: the passes of the loop for the trials after the first
RECURSIVE ItiLoop(_, _, _)
ItiLoop(iti, rows, trials) ==
    IF trials = <<>> THEN [status |-> "done", value |-> iti]
    ELSE LET idx_current_trial == RowsWhere(rows, "trial_idx", Head(trials))
             idx_prev_trial == RowsWhere(rows, "trial_idx", PrevTrial(Head(trials)))
         IN IF idx_prev_trial = <<>>
            THEN [status |-> "IndexError", value |-> <<>>]
            ELSE LET start_time == rows[idx_current_trial[1]].start_time
                     end_time == rows[idx_prev_trial[1]].reward_collection_time
                 IN ItiLoop([k \in DOMAIN iti |->
                                IF k \in Range(idx_current_trial)
                                THEN start_time - end_time ELSE iti[k]],
                            rows, Tail(trials))

\* prev_iti_length, lines 161-174: [status, value]
PrevItiLength(rows) ==
    IF rows = <<>> THEN [status |-> "IndexError", value |-> <<>>]
    ELSE ItiLoop([k \in DOMAIN rows |-> IF k = 1 THEN NaN ELSE 0], rows,
                 Tail(Series_unique(Column(rows, "trial_idx"))))

\* Trials end no earlier than they start.
TrialTimes == {p \in (0..MaxEventTime) \X (0..MaxEventTime) : p[1] <= p[2]}

ItiTables ==
    UNION {[1..n -> {EventRow(i, "False", p[1], 0, 0, p[2]) :
                        i \in 0..MaxTrialIdx, p \in TrialTimes}] :
           n \in 0..MaxEventRows}

InitITI ==
    /\ fpc = "call"
    /\ fn = "prev_iti_length"
    /\ df_events \in ItiTables
    /\ large_reward_amt = 0
    /\ small_reward_amt = 0
    /\ first_event_col = "None"
    /\ second_event_col = "None"
    /\ trial_shift = 0
    /\ in_block = FALSE
    /\ feature = <<>>

prev_iti_length ==
    /\ fpc = "call"
    /\ fn = "prev_iti_length"
    /\ \E r \in {PrevItiLength(df_events)} :
           /\ fpc' = r.status
           /\ feature' = r.value
    /\ UNCHANGED <<fn, df_events, large_reward_amt, small_reward_amt, first_event_col,
                   second_event_col, trial_shift, in_block>>
    /\ UNCHANGED <<dvars, evars, lvars, kvars>>

NextITI == prev_iti_length

\* The row DataFrame.shift brings in: every column missing.
NaNRow == EventRow(NaN, NoChoice, NaN, NaN, NaN, NaN)

\* shift: "Current trial if 0, previous trial if 1"
TrialShifts == {0, 1}

\* (mutation of ShiftedFrame: no shift)
FrameAsIs(rows, s) == rows

\* line 197: .shift(shift) of the sorted table, every column moved alike
ShiftedFrame(rows, s) == Shift(rows, s, NaNRow)

\* event_delay, lines 197-201, p the row order sort_values produced
EventDelay(rows, p, first, second, s) ==
    LET df == ShiftedFrame(sort_values(rows, p), s)
    IN [k \in DOMAIN df |-> Minus(df[k][second], df[k][first])]

\* The columns a direct call of event_delay is given.
ColumnPairs == {<<"start_time", "screen_touch_time">>,
                <<"reward_collection_time", "mouse_init_time">>}

\* The default columns of the wrappers: <<first_event_col, second_event_col>>
WrapperCols(f) ==
    IF f = "trial_start_delay" THEN <<"start_time", "mouse_init_time">>
    ELSE IF f = "screen_touch_delay" THEN <<"mouse_init_time", "screen_touch_time">>
    ELSE IF f = "reward_collection_delay" THEN <<"screen_touch_time", "reward_collection_time">>
    ELSE <<"start_time", "reward_collection_time">>

Wrappers == {"trial_start_delay", "screen_touch_delay", "reward_collection_delay",
             "trial_duration"}

\* Tables whose rows vary in the trial index and in the two columns read.
DelayTables(first, second) ==
    UNION {[1..n -> {[EventRow(i, "False", 0, 0, 0, 0) EXCEPT ![first] = a, ![second] = b] :
                        i \in 0..MaxTrialIdx, a \in 0..MaxEventTime, b \in 0..MaxEventTime}] :
           n \in 0..MaxDelayRows}

InitDelay ==
    /\ fpc = "call"
    /\ fn \in {"event_delay"} \cup Wrappers
    /\ \E cols \in (IF fn = "event_delay" THEN ColumnPairs ELSE {WrapperCols(fn)}) :
           /\ df_events \in DelayTables(cols[1], cols[2])
           /\ first_event_col = (IF fn = "event_delay" THEN cols[1] ELSE "None")
           /\ second_event_col = (IF fn = "event_delay" THEN cols[2] ELSE "None")
    /\ large_reward_amt = 0
    /\ small_reward_amt = 0
    /\ trial_shift \in TrialShifts
    /\ in_block = FALSE
    /\ feature = <<>>

\* A call of event_delay with the given columns, from the caller or a wrapper.
CallEventDelay(first, second) ==
    /\ fpc = "call"
    /\ \E p \in SortPerms(Column(df_events, "trial_idx")) :
           feature' = EventDelay(df_events, p, first, second, trial_shift)
    /\ first_event_col' = first
    /\ second_event_col' = second
    /\ fpc' = "done"
    /\ UNCHANGED <<fn, df_events, large_reward_amt, small_reward_amt, trial_shift, in_block>>
    /\ UNCHANGED <<dvars, evars, lvars, kvars>>

event_delay ==
    /\ fn = "event_delay"
    /\ CallEventDelay(first_event_col, second_event_col)

trial_start_delay ==
    /\ fn = "trial_start_delay"
    /\ CallEventDelay("start_time", "mouse_init_time")

screen_touch_delay ==
    /\ fn = "screen_touch_delay"
    /\ CallEventDelay("mouse_init_time", "screen_touch_time")

reward_collection_delay ==
    /\ fn = "reward_collection_delay"
    /\ CallEventDelay("screen_touch_time", "reward_collection_time")

trial_duration ==
    /\ fn = "trial_duration"
    /\ CallEventDelay("start_time", "reward_collection_time")

NextDelay ==
    \/ event_delay
    \/ trial_start_delay
    \/ screen_touch_delay
    \/ reward_collection_delay
    \/ trial_duration

\* A row of df_events as num_prev_trials reads it: the block type only.
BlockRow(b) == [block_type |-> b]

\* np.arange(n)
arange(n) == [k \in 1..n |-> k - 1]

\* line 23: trial_idx[idx].min()
MinOf(a, idx) == CHOOSE x \in {a[k] : k \in idx} : \A y \in {a[k] : k \in idx} : x <= y

\* lines 21-23: one pass of the loop per block type
RECURSIVE BlockLoop(_, _, _)
BlockLoop(trial_idx, rows, block_types) ==
    IF block_types = <<>> THEN trial_idx
    ELSE LET idx == {k \in DOMAIN rows : rows[k].block_type = Head(block_types)}
         IN BlockLoop([k \in DOMAIN trial_idx |->
                          IF k \in idx THEN trial_idx[k] - MinOf(trial_idx, idx)
                          ELSE trial_idx[k]],
                      rows, Tail(block_types))

\* num_prev_trials, lines 18-25
NumPrevTrials(rows, inblock) ==
    IF inblock
    THEN BlockLoop(arange(Len(rows)), rows, Series_unique(Column(rows, "block_type")))
    ELSE arange(Len(rows))

BlockTables == UNION {[1..n -> {BlockRow(b) : b \in 1..MaxBlockType}] : n \in 0..MaxEventRows}

InitPrevTrials ==
    /\ fpc = "call"
    /\ fn = "num_prev_trials"
    /\ df_events \in BlockTables
    /\ large_reward_amt = 0
    /\ small_reward_amt = 0
    /\ first_event_col = "None"
    /\ second_event_col = "None"
    /\ trial_shift = 0
    /\ in_block \in BOOLEAN
    /\ feature = <<>>

num_prev_trials ==
    /\ fpc = "call"
    /\ fn = "num_prev_trials"
    /\ feature' = NumPrevTrials(df_events, in_block)
    /\ fpc' = "done"
    /\ UNCHANGED <<fn, df_events, large_reward_amt, small_reward_amt, first_event_col,
                   second_event_col, trial_shift, in_block>>
    /\ UNCHANGED <<dvars, evars, lvars, kvars>>

NextPrevTrials == num_prev_trials

IdleFeature ==
    /\ fpc = "idle"
    /\ fn = "None"
    /\ df_events = <<>>
    /\ large_reward_amt = 0
    /\ small_reward_amt = 0
    /\ first_event_col = "None"
    /\ second_event_col = "None"
    /\ trial_shift = 0
    /\ in_block = FALSE
    /\ feature = <<>>

\* ---------------------------------------- event_feature_eng.py: properties
RewardDone == fpc = "done" /\ fn = "cumulative_reward"

\* The reward of the event in row k.
EventReward(k) ==
    IF df_events[k].chose_large = "True" THEN large_reward_amt ELSE small_reward_amt

RewardBefore(k) ==
    LET S[j \in 0..Len(df_events)] == IF j = 0 THEN 0 ELSE S[j - 1] + EventReward(j)
    IN S[k - 1]

\* C15: cumulative_reward returns one value per event; the value of an event
\* is the sum of the rewards of the events before it, its own left out, so
\* the first value is 0.
C15_RewardBefore ==
    RewardDone =>
        /\ Len(feature) = Len(df_events)
        /\ \A k \in DOMAIN df_events : feature[k] = RewardBefore(k)
        /\ (df_events # <<>> => feature[1] = 0)

\* Choices True, False, True with amounts 1 and 0 give 0, 1, 1.
C15_Witness ==
    /\ RewardDone
    /\ Column(df_events, "chose_large") = <<"True", "False", "True">>
    /\ large_reward_amt = 1
    /\ small_reward_amt = 0
    /\ feature = <<0, 1, 1>>

ItiCalled == fn = "prev_iti_length" /\ fpc # "call"

\* One row per trial, the trial indices going up by one from row to row.
ConsecutiveTrials ==
    /\ df_events # <<>>
    /\ \A k \in 1..(Len(df_events) - 1) :
           df_events[k + 1].trial_idx = df_events[k].trial_idx + 1

\* C16: for a table of consecutive trials, one row each, prev_iti_length
\* returns NaN for the first row and, for every later row, the start time of
\* its trial minus the end time of the trial before.
C16_PrevIti ==
    (ItiCalled /\ ConsecutiveTrials) =>
        /\ fpc = "done"
        /\ Len(feature) = Len(df_events)
        /\ feature[1] = NaN
        /\ \A k \in 2..Len(df_events) :
               feature[k] = df_events[k].start_time - df_events[k - 1].reward_collection_time

\* Three consecutive trials with two different intervals between them.
C16_Witness ==
    /\ ItiCalled
    /\ ConsecutiveTrials
    /\ Len(df_events) = 3
    /\ fpc = "done"
    /\ feature[2] # feature[3]
    /\ feature[2] # 0

DelayDone == fpc = "done" /\ fn \in {"event_delay"} \cup Wrappers

OneRowPerTrial ==
    \A j, k \in DOMAIN df_events : j # k => df_events[j].trial_idx # df_events[k].trial_idx

\* The number of trials before the trial of row k.
TrialRank(k) ==
    Cardinality({j \in DOMAIN df_events : df_events[j].trial_idx < df_events[k].trial_idx})

\* The row of the trial just before the trial of row k.
PrevRow(k) == CHOOSE j \in DOMAIN df_events : TrialRank(j) = TrialRank(k) - 1

FirstEvent(k) == df_events[k][first_event_col]

SecondEvent(k) == df_events[k][second_event_col]

\* The value returned for the trial of row k: the array is in trial order.
DelayOf(k) == feature[TrialRank(k) + 1]

\* The columns each wrapper hands to event_delay.
WrapperColumns ==
    /\ fn = "trial_start_delay" =>
           first_event_col = "start_time" /\ second_event_col = "mouse_init_time"
    /\ fn = "screen_touch_delay" =>
           first_event_col = "mouse_init_time" /\ second_event_col = "screen_touch_time"
    /\ fn = "reward_collection_delay" =>
           first_event_col = "screen_touch_time" /\ second_event_col = "reward_collection_time"
    /\ fn = "trial_duration" =>
           first_event_col = "start_time" /\ second_event_col = "reward_collection_time"

\* C17 as stated: with one row per trial, shift = 0 gives each trial its own
\* second event minus its own first event; shift = 1 gives the first trial
\* NaN and every later trial the second event of the trial before minus its
\* own first event.
C17_PrevSecondOwnFirst ==
    (DelayDone /\ OneRowPerTrial) =>
        /\ Len(feature) = Len(df_events)
        /\ \A k \in DOMAIN df_events :
               /\ trial_shift = 0 => DelayOf(k) = SecondEvent(k) - FirstEvent(k)
               /\ (trial_shift = 1 /\ TrialRank(k) = 0) => DelayOf(k) = NaN
               /\ (trial_shift = 1 /\ TrialRank(k) > 0) =>
                      DelayOf(k) = SecondEvent(PrevRow(k)) - FirstEvent(k)

\* C17 amended: with one row per trial, shift = 0 gives each trial its own
\* second event minus its own first event; shift = 1 gives the first trial
\* NaN and every later trial the delay of the trial before, second event
\* minus first event both of that trial.  The array is in trial order.
C17_PrevTrialDelay ==
    (DelayDone /\ OneRowPerTrial) =>
        /\ WrapperColumns
        /\ Len(feature) = Len(df_events)
        /\ \A k \in DOMAIN df_events :
               /\ trial_shift = 0 => DelayOf(k) = SecondEvent(k) - FirstEvent(k)
               /\ (trial_shift = 1 /\ TrialRank(k) = 0) => DelayOf(k) = NaN
               /\ (trial_shift = 1 /\ TrialRank(k) > 0) =>
                      DelayOf(k) = SecondEvent(PrevRow(k)) - FirstEvent(PrevRow(k))

\* A wrapper called with shift = 1 on two trials, the later one first in the
\* table, whose first events differ.
C17_Witness ==
    /\ DelayDone
    /\ fn = "trial_duration"
    /\ trial_shift = 1
    /\ Len(df_events) = 2
    /\ df_events[1].trial_idx > df_events[2].trial_idx
    /\ FirstEvent(1) # FirstEvent(2)
    /\ feature[2] = SecondEvent(2) - FirstEvent(2)
    /\ feature[2] # SecondEvent(2) - FirstEvent(1)

PrevTrialsDone == fpc = "done" /\ fn = "num_prev_trials"

BlockType(k) == df_events[k].block_type

\* The row at which the block of row k starts: a block is a run of
\* consecutive rows of one block type.
BlockStart(k) ==
    SetMax({j \in 1..k : j = 1 \/ BlockType(j - 1) # BlockType(j)})

\* Every block type occurs in one block only.
TypesContiguous ==
    \A j, k \in DOMAIN df_events :
        (j < k /\ BlockType(j) = BlockType(k)) =>
            \A m \in j..k : BlockType(m) = BlockType(j)

\* C21: with in_block the value of an event is the number of trials since
\* the start of its block, 0 for the first trial of every block, whatever
\* the sequence of block types; without in_block the value of event i is i.
C21_SinceBlockStart ==
    PrevTrialsDone =>
        /\ Len(feature) = Len(df_events)
        /\ \A k \in DOMAIN df_events :
               feature[k] = (IF in_block THEN k - BlockStart(k) ELSE k - 1)

\* C21, for sessions in which every block type occurs in one block only.
C21_SinceBlockStartContiguous == TypesContiguous => C21_SinceBlockStart

C21_ContiguousWitness ==
    /\ PrevTrialsDone
    /\ in_block
    /\ TypesContiguous
    /\ Len(df_events) = 3
    /\ feature = <<0, 0, 1>>

\* ------------------------------------------------------------ wiring
IdleDemarcate ==
    /\ pc = "idle"
    /\ df_ts = NoTable
    /\ df_trials = NoTable
    /\ created_trial_idx_col = "None"
    /\ ts_local = NoTable
    /\ trials_local = NoTable
    /\ merged_start = NoTable
    /\ merged_stop = NoTable
    /\ ret = NoTable
    /\ call_no = 1
    /\ first_ret = NoTable

InitDemarcateSpec == InitDemarcate /\ IdleEvents /\ IdleLatency /\ IdleKFold /\ IdleFeature

InitEventsSpec == InitEvents /\ IdleDemarcate /\ IdleLatency /\ IdleKFold /\ IdleFeature

InitLatencySpec == InitLatency /\ IdleDemarcate /\ IdleEvents /\ IdleKFold /\ IdleFeature

InitKFoldSpec == InitKFold /\ IdleDemarcate /\ IdleEvents /\ IdleLatency /\ IdleFeature

InitRewardSpec == InitReward /\ IdleDemarcate /\ IdleEvents /\ IdleLatency /\ IdleKFold

InitITISpec == InitITI /\ IdleDemarcate /\ IdleEvents /\ IdleLatency /\ IdleKFold

InitDelaySpec == InitDelay /\ IdleDemarcate /\ IdleEvents /\ IdleLatency /\ IdleKFold

InitPrevTrialsSpec == InitPrevTrials /\ IdleDemarcate /\ IdleEvents /\ IdleLatency /\ IdleKFold

NextEvents == events_to_time_series

NextLatency == demarcate_latency_from_event

\* One call of demarcate_trials.
SpecDemarcate == InitDemarcateSpec /\ [][NextDemarcate]_vars

\* A call of demarcate_trials, and a second call on what it returned.
SpecDemarcateTwice == InitDemarcateSpec /\ [][NextDemarcateTwice]_vars

\* One call of events_to_time_series.
SpecEvents == InitEventsSpec /\ [][NextEvents]_vars

\* One call of demarcate_latency_from_event.
SpecLatency == InitLatencySpec /\ [][NextLatency]_vars

\* One call of GroupTypeKFold.split, iterated to exhaustion.
SpecKFold == InitKFoldSpec /\ [][NextKFold]_vars

\* One call of cumulative_reward.
SpecReward == InitRewardSpec /\ [][NextReward]_vars

\* One call of prev_iti_length.
SpecITI == InitITISpec /\ [][NextITI]_vars

\* One call of event_delay or of one of its wrappers.
SpecDelay == InitDelaySpec /\ [][NextDelay]_vars

\* One call of num_prev_trials.
SpecPrevTrials == InitPrevTrialsSpec /\ [][NextPrevTrials]_vars

Spec == SpecDemarcate

====
